---------------------------- MODULE Spec2Model ----------------------------
(***************************************************************************)
(* World of Bits (src/src/main.ts): a single-player merge game on a        *)
(* geographic grid.  The model covers the deterministic generator, the     *)
(* sparse overlay of modified cells, the click interaction rules, the      *)
(* movement facade (buttons / geolocation), the transient message and the  *)
(* localStorage persistence.                                               *)
(*                                                                         *)
(* Representation.                                                         *)
(*  - A JavaScript string is the sequence of its character codes.          *)
(*  - A 32-bit unsigned integer is the pair <<hi, lo>> of its 16-bit       *)
(*    halves (TLC's integers are 32-bit signed).                           *)
(*  - undefined and null are the integers Undefined and Null; token values *)
(*    are positive integers.                                               *)
(*  - Latitudes and longitudes are integers counting 1e-5 degrees.         *)
(*  - A message text is a tuple alternating literal parts and numbers.     *)
(***************************************************************************)
EXTENDS Integers, Sequences, FiniteSets, TLC

\* ------------------------------------------------------------------------
\* Representation of undefined / null
\* ------------------------------------------------------------------------
Undefined == -1
Null == -2

\* ------------------------------------------------------------------------
\* Strings as character-code sequences
\* ------------------------------------------------------------------------
RECURSIVE Digits(_)
\* decimal digits of a natural number, as character codes ("0" is 48)
Digits(n) ==
    IF n < 10 THEN <<48 + n>> ELSE Digits(n \div 10) \o <<48 + (n % 10)>>

\* String(n) / `${n}` for an integer n ("-" is 45)
NumberToString(n) == IF n < 0 THEN <<45>> \o Digits(0 - n) ELSE Digits(n)

\* "|spawn" and "|value"
SpawnSuffix == <<124, 115, 112, 97, 119, 110>>
ValueSuffix == <<124, 118, 97, 108, 117, 101>>

\* ------------------------------------------------------------------------
\* hash01: FNV-1a over the character codes, mapped to [0,1)
\* ------------------------------------------------------------------------
Half == 65536

RECURSIVE BitXor(_, _)
BitXor(a, b) ==
    IF a = 0 THEN b
    ELSE IF b = 0 THEN a
    ELSE ((a + b) % 2) + 2 * BitXor(a \div 2, b \div 2)

\* h ^= code, for a character code below 2^16
XorCode(h, code) == <<h[1], BitXor(h[2], code)>>

\* Math.imul(a, b): the low 32 bits of the product (b's halves are small
\* enough for the partial products to fit)
imul(a, b) ==
    LET low == a[2] * b[2]
    IN  <<(a[1] * b[2] + a[2] * b[1] + (low \div Half)) % Half, low % Half>>

\* 2166136261 = 0x811C9DC5 and 16777619 = 0x01000193
FnvOffsetBasis == <<33052, 40389>>
FnvPrime == <<256, 403>>

\* the 32-bit words, as pairs of halves
Word32 == (0..(Half - 1)) \X (0..(Half - 1))

RECURSIVE FnvOver(_, _, _, _)
\* the loop of hash01 over the characters s[from..to], entered with hash h;
\* the range is halved to keep the evaluation shallow
FnvOver(h, s, from, to) ==
    IF from > to THEN h
    ELSE IF from = to THEN imul(XorCode(h, s[from]), FnvPrime)
    ELSE LET mid == (from + to) \div 2
             half == FnvOver(h, s, from, mid)
         IN  IF half \in Word32 THEN FnvOver(half, s, mid + 1, to) ELSE half

\* hash01(s) is the fraction h / 0xffffffff; the model keeps h
hash01(s) == FnvOver(FnvOffsetBasis, s, 1, Len(s))

\* r < num/den  and  r >= num/den  for the fraction r = h / 0xffffffff,
\* by cross-multiplication in 16-bit limbs (num, den at most 10)
Scaled(h, k) ==
    LET low == h[2] * k
    IN  <<h[1] * k + (low \div Half), low % Half>>

LimbLess(x, y) == x[1] < y[1] \/ (x[1] = y[1] /\ x[2] < y[2])

FractionLess(h, num, den) ==
    LimbLess(Scaled(h, den), Scaled(<<65535, 65535>>, num))


\* ------------------------------------------------------------------------
\* Tunable world parameters and geometry
\* ------------------------------------------------------------------------
\* CLASSROOM_LATLNG (36.997936938057016, -122.05703507501151), in 1e-5 degrees
ClassroomLat == 3699793
ClassroomLng == -12205704
\* TILE_DEGREES = 1e-4 degrees, in 1e-5 degrees
TILE_DEGREES == 10
\* CACHE_SPAWN_PROBABILITY = 0.1 as the fraction <<numerator, denominator>>
CACHE_SPAWN_PROBABILITY == <<1, 10>>
INTERACT_RANGE_STEPS == 5
WIN_VALUE == 32

\* MUTANT of cellKeyOf: the key leaves out j
cellKeyRowOnly(c) == NumberToString(c.i)

\* cellKey: `${c.i}:${c.j}`
cellKeyOf(c) == NumberToString(c.i) \o <<58>> \o NumberToString(c.j)

\* Math.floor(x / TILE_DEGREES) on both coordinates
latLngToCell(lat, lng) ==
    [i |-> lat \div TILE_DEGREES, j |-> lng \div TILE_DEGREES]

\* MUTANT of euclidStepsSquared: the Chebyshev distance of the earlier
\* revisions, squared
chebyshevStepsSquared(a, b) ==
    LET dx == IF a.i < b.i THEN b.i - a.i ELSE a.i - b.i
        dy == IF a.j < b.j THEN b.j - a.j ELSE a.j - b.j
    IN  IF dx < dy THEN dy * dy ELSE dx * dx

\* the square of euclidSteps(a, b): dx * dx + dy * dy before Math.sqrt
euclidStepsSquared(a, b) ==
    LET dx == a.i - b.i
        dy == a.j - b.j
    IN  dx * dx + dy * dy

\* euclidSteps(id, playerCell) <= INTERACT_RANGE_STEPS; the square root of an
\* integer is at most 5 exactly when the integer is at most 25
canInteract(id, player) ==
    euclidStepsSquared(id, player) <= INTERACT_RANGE_STEPS * INTERACT_RANGE_STEPS

\* latLngToCell(CLASSROOM_LATLNG.lat, CLASSROOM_LATLNG.lng)
HomeCell == latLngToCell(ClassroomLat, ClassroomLng)

\* ------------------------------------------------------------------------
\* Bounds of the model
\* ------------------------------------------------------------------------
\* the step buttons are pressed only while the player stays within MaxStep
\* grid steps (Manhattan) of the classroom cell or of a position fix
MaxStep == 1

\* at most MaxTimers timeouts of flash are pending at a time
MaxTimers == 2

Offset(di, dj) == [i |-> HomeCell.i + di, j |-> HomeCell.j + dj]

\* the cells the player clicks, given by their offset from the classroom:
\* three cells the generator gives an 8 and one it leaves empty
ClickCells == {Offset(3, 4), Offset(6, -1), Offset(7, 8), Offset(7, 3)}

\* two more cells the generator gives an 8, emptied in the earlier game
EarlierCells == {Offset(11, 1), Offset(11, 2)}

WorldCells == ClickCells \cup EarlierCells

\* cellKey over the cells of the world, computed once
WorldKeys == [c \in WorldCells |-> cellKeyOf(c)]

cellKey(c) == WorldKeys[c]

\* the centre of a cell as a position in 1e-5 degrees
CellCentreFix(c) ==
    [lat |-> c.i * TILE_DEGREES + (TILE_DEGREES \div 2),
     lng |-> c.j * TILE_DEGREES + (TILE_DEGREES \div 2)]

\* the positions the geolocation feed reports
GeoFixes == {CellCentreFix(Offset(7, 3)), CellCentreFix(HomeCell)}

Anchors == {HomeCell} \cup {latLngToCell(f.lat, f.lng) : f \in GeoFixes}

Abs(n) == IF n < 0 THEN 0 - n ELSE n

InArena(c) ==
    \E a \in Anchors : Abs(c.i - a.i) + Abs(c.j - a.j) <= MaxStep


\* ------------------------------------------------------------------------
\* State
\* ------------------------------------------------------------------------
VARIABLES
    pc,            \* "boot": the module's declarations ran, the boot sequence
                   \* has not; "run": the page waits for events
    geoAvailable,  \* whether navigator.geolocation exists in this browser
    playerCell,    \* let playerCell
    held,          \* let held
    modified,      \* const modified = new Map(): key -> value or Undefined
    movementMode,  \* let movementMode
    geoWatchId,    \* let geoWatchId: Null or a watch id
    watches,       \* the browser's active watchPosition subscriptions
    disabled,      \* the disabled flag shared by the four step buttons
    msg,           \* msgEl: [text, cls]
    timers,        \* the timeouts flash started: [tracked, queue].  With
                   \* tracked, queue holds the texts of the pending timeouts
                   \* in the order they fire (all have the same delay); without,
                   \* the queue stays empty and TimerFire stands for the
                   \* timeout of the flash that displayed the present text
    storage,       \* localStorage[STORAGE_KEY]: <<>> or <<payload>>
    touched        \* history: cells altered by an interaction since the
                   \* last reset

vars ==
    <<pc, geoAvailable, playerCell, held, modified, movementMode, geoWatchId,
      watches, disabled, msg, timers, storage, touched>>

\* the program's own state as one record, so that a handler is a function
\* from the state before to the state after
Cur ==
    [playerCell |-> playerCell, held |-> held, modified |-> modified,
     movementMode |-> movementMode, geoWatchId |-> geoWatchId,
     watches |-> watches, disabled |-> disabled, msg |-> msg,
     timers |-> timers,
     storage |-> storage]

Becomes(S) ==
    /\ playerCell' = S.playerCell
    /\ held' = S.held
    /\ modified' = S.modified
    /\ movementMode' = S.movementMode
    /\ geoWatchId' = S.geoWatchId
    /\ watches' = S.watches
    /\ disabled' = S.disabled
    /\ msg' = S.msg
    /\ Len(S.timers.queue) <= MaxTimers
    /\ timers' = S.timers
    /\ storage' = S.storage

\* ------------------------------------------------------------------------
\* Deterministic generator
\* ------------------------------------------------------------------------
\* const luck = resolveLuck(LUCK_LIB) ?? hash01.  The imported module
\* ./_luck.ts is not among the sources; the fallback is.
luck(key) == hash01(key)

initialTokenValueOf(c) ==
    LET k == cellKey(c)
        r == luck(k \o ValueSuffix)
    IN  IF ~FractionLess(luck(k \o SpawnSuffix),
                         CACHE_SPAWN_PROBABILITY[1], CACHE_SPAWN_PROBABILITY[2])
        THEN Undefined
        ELSE IF FractionLess(r, 1, 4) THEN 1
        ELSE IF FractionLess(r, 1, 2) THEN 2
        ELSE IF FractionLess(r, 3, 4) THEN 4
        ELSE 8

\* the generator's values on the cells of the model, computed once
GeneratedWorld == [c \in WorldCells |-> initialTokenValueOf(c)]

initialTokenValue(c) == GeneratedWorld[c]

\* ------------------------------------------------------------------------
\* World store
\* ------------------------------------------------------------------------
\* MUTANT of readCell: a stored empty value falls through to the generator
readCellNullish(S, c) ==
    LET k == cellKey(c)
    IN  IF k \in DOMAIN S.modified /\ S.modified[k] # Undefined
        THEN S.modified[k]
        ELSE initialTokenValue(c)

readCell(S, c) ==
    LET k == cellKey(c)
    IN  IF k \in DOMAIN S.modified THEN S.modified[k] ELSE initialTokenValue(c)

\* new Map()
EmptyMap == [k \in {} |-> Undefined]

\* Map.prototype.set
MapSet(m, k, v) ==
    [x \in (DOMAIN m) \cup {k} |-> IF x = k THEN v ELSE m[x]]

\* MUTANT of writeCell: an empty value deletes the entry
writeCellCompacting(S, c, v) ==
    IF v = Undefined
    THEN [S EXCEPT !.modified =
             [x \in (DOMAIN S.modified) \ {cellKey(c)} |-> S.modified[x]]]
    ELSE [S EXCEPT !.modified = MapSet(S.modified, cellKey(c), v)]

writeCell(S, c, v) == [S EXCEPT !.modified = MapSet(S.modified, cellKey(c), v)]

\* ------------------------------------------------------------------------
\* Messages
\* ------------------------------------------------------------------------
NoText == <<"">>

\* flash(msg, cls): the text and class are set and a timeout is started;
\* the timeout firing is
\* the action TimerFire
flash(S, text, cls) ==
    [S EXCEPT !.msg = [text |-> text, cls |-> cls],
              !.timers.queue = IF S.timers.tracked THEN Append(@, text) ELSE @]

WinText(h) == <<"You win! Held token value = ", h>>

\* MUTANT of checkWin: the threshold is one merge too low
checkWinEarly(S) ==
    IF S.held # Undefined /\ S.held * 2 >= WIN_VALUE
    THEN flash(S, WinText(S.held), "ok")
    ELSE S

checkWin(S) ==
    IF S.held # Undefined /\ S.held >= WIN_VALUE
    THEN flash(S, WinText(S.held), "ok")
    ELSE S

\* ------------------------------------------------------------------------
\* Persistence
\* ------------------------------------------------------------------------
\* v ?? null
OrNull(v) == IF v = Undefined THEN Null ELSE v
\* v ?? undefined
OrUndefined(v) == IF v = Null \/ v = Undefined THEN Undefined ELSE v

\* MUTANT of SavedState: empty entries are left as undefined, which
\* JSON.stringify does not keep
SavedStateSparse(S) ==
    [playerCell |-> S.playerCell,
     held |-> OrNull(S.held),
     movementMode |-> S.movementMode,
     modified |-> [k \in {x \in DOMAIN S.modified :
                             S.modified[x] # Undefined} |-> S.modified[k]]]

\* the object saveGameState serialises
SavedState(S) ==
    [playerCell |-> S.playerCell,
     held |-> OrNull(S.held),
     movementMode |-> S.movementMode,
     modified |-> [k \in DOMAIN S.modified |-> OrNull(S.modified[k])]]

\* setItemOk: whether localStorage.setItem succeeds; a failure is caught
\* and ignored
saveGameState(S, setItemOk) ==
    IF setItemOk THEN [S EXCEPT !.storage = <<SavedState(S)>>] ELSE S

\* A stored text JSON.parse rejects (truncated JSON): a record with no field
\* of a saved state.  JSON.parse throws and the catch leaves every variable
\* as it was.
Unparseable == [raw |-> "truncated"]

\* a JSON string where a saved state has a number
StringValue == -3

\* A parsed item is a record; a field the JSON object lacks is absent from
\* the record and reads as undefined.
loadGameState(S) ==
    IF S.storage = <<>> THEN S
    ELSE LET parsed == S.storage[1]
             Has(f) == f \in DOMAIN parsed
         IN  IF parsed = Unparseable THEN S
             ELSE [S EXCEPT
                !.playerCell =
                    IF /\ Has("playerCell")
                       /\ "i" \in DOMAIN parsed.playerCell
                       /\ "j" \in DOMAIN parsed.playerCell
                    THEN [i |-> parsed.playerCell.i, j |-> parsed.playerCell.j]
                    ELSE S.playerCell,
                !.held = IF Has("held") THEN OrUndefined(parsed.held)
                         ELSE Undefined,
                !.modified =
                    IF Has("modified")
                    THEN [k \in DOMAIN parsed.modified |->
                             OrUndefined(parsed.modified[k])]
                    ELSE [k \in {} |-> Undefined],
                !.movementMode =
                    IF Has("movementMode") /\ parsed.movementMode = "geolocation"
                    THEN "geolocation" ELSE "buttons"]

\* ------------------------------------------------------------------------
\* Movement facade
\* ------------------------------------------------------------------------
\* MUTANT of setPlayerCell: the cells forget their state when the player
\* moves
setPlayerCellMemoryless(S, newCell, setItemOk) ==
    saveGameState([S EXCEPT !.playerCell = newCell, !.modified = EmptyMap],
                  setItemOk)

\* MUTANT of setPlayerCell: the state is not saved
setPlayerCellUnsaved(S, newCell, setItemOk) ==
    [S EXCEPT !.playerCell = newCell]

\* setPlayerCell: the marker, the map and the grid are redrawn (display
\* only), then the state is saved
setPlayerCell(S, newCell, setItemOk) ==
    saveGameState([S EXCEPT !.playerCell = newCell], setItemOk)

movePlayerBySteps(S, di, dj, setItemOk) ==
    setPlayerCell(S, [i |-> S.playerCell.i + di, j |-> S.playerCell.j + dj],
                  setItemOk)

\* the id navigator.geolocation.watchPosition returns: one not in use
NewWatchId(S) ==
    CHOOSE n \in 1..(Cardinality(S.watches) + 1) : n \notin S.watches

startGeolocation(S) ==
    IF ~geoAvailable
    THEN flash(S, <<"Geolocation API not available.">>, "err")
    ELSE IF S.geoWatchId # Null THEN S
    ELSE [S EXCEPT !.geoWatchId = NewWatchId(S),
                   !.watches = S.watches \cup {NewWatchId(S)}]

stopGeolocation(S) ==
    IF S.geoWatchId # Null
    THEN [S EXCEPT !.watches = S.watches \ {S.geoWatchId},
                   !.geoWatchId = Null]
    ELSE S

setMovementMode(S, mode, setItemOk) ==
    IF S.movementMode = mode THEN S
    ELSE LET torn == IF S.movementMode = "geolocation"
                     THEN stopGeolocation(S) ELSE S
             switched == [torn EXCEPT !.movementMode = mode,
                                      !.disabled = ~(mode = "buttons")]
             started == IF mode = "geolocation"
                        THEN startGeolocation(switched) ELSE switched
         IN  saveGameState(started, setItemOk)

\* the success callback of watchPosition
geoPosition(S, lat, lng, setItemOk) ==
    saveGameState([S EXCEPT !.playerCell = latLngToCell(lat, lng)], setItemOk)

\* the error callback of watchPosition
geoError(S) == flash(S, <<"Unable to read geolocation.">>, "err")

\* ------------------------------------------------------------------------
\* Interaction rules
\* ------------------------------------------------------------------------
\* MUTANT of handleCellClick: a merge raises the cell's value by one
handleCellClickMergeAddsOne(S, id, setItemOk) ==
    LET current == readCell(S, id)
        v == S.held
    IN  IF S.held = Undefined
        THEN IF current # Undefined
             THEN LET picked == writeCell([S EXCEPT !.held = current], id,
                                          Undefined)
                  IN  checkWin(saveGameState(
                          flash(picked, <<"Picked up ", picked.held, ".">>, "ok"),
                          setItemOk))
             ELSE flash(S, <<"Nothing happened.">>, "info")
        ELSE IF current = Undefined
        THEN LET placed == [writeCell(S, id, v) EXCEPT !.held = Undefined]
             IN  saveGameState(flash(placed, <<"Placed ", v, ".">>, "ok"),
                               setItemOk)
        ELSE IF current = v
        THEN LET merged == [writeCell(S, id, v + 1) EXCEPT !.held = Undefined]
             IN  checkWin(saveGameState(
                     flash(merged, <<"Merged to ", v * 2, "!">>, "ok"),
                     setItemOk))
        ELSE LET swapped == [writeCell(S, id, v) EXCEPT !.held = current]
             IN  saveGameState(
                     flash(swapped,
                           <<"Swapped: cell=", v, ", holding=", current, ".">>,
                           "ok"),
                     setItemOk)

\* MUTANT of handleCellClick: a merge leaves the token in the hand
handleCellClickMergeKeepsHand(S, id, setItemOk) ==
    LET current == readCell(S, id)
        v == S.held
    IN  IF S.held = Undefined
        THEN IF current # Undefined
             THEN LET picked == writeCell([S EXCEPT !.held = current], id,
                                          Undefined)
                  IN  checkWin(saveGameState(
                          flash(picked, <<"Picked up ", picked.held, ".">>, "ok"),
                          setItemOk))
             ELSE flash(S, <<"Nothing happened.">>, "info")
        ELSE IF current = Undefined
        THEN LET placed == [writeCell(S, id, v) EXCEPT !.held = Undefined]
             IN  saveGameState(flash(placed, <<"Placed ", v, ".">>, "ok"),
                               setItemOk)
        ELSE IF current = v
        THEN LET merged == writeCell(S, id, v * 2)
             IN  checkWin(saveGameState(
                     flash(merged, <<"Merged to ", v * 2, "!">>, "ok"),
                     setItemOk))
        ELSE LET swapped == [writeCell(S, id, v) EXCEPT !.held = current]
             IN  saveGameState(
                     flash(swapped,
                           <<"Swapped: cell=", v, ", holding=", current, ".">>,
                           "ok"),
                     setItemOk)

\* MUTANT of handleCellClick: a placement keeps the cell as it was
handleCellClickPlaceLost(S, id, setItemOk) ==
    LET current == readCell(S, id)
        v == S.held
    IN  IF S.held = Undefined
        THEN IF current # Undefined
             THEN LET picked == writeCell([S EXCEPT !.held = current], id,
                                          Undefined)
                  IN  checkWin(saveGameState(
                          flash(picked, <<"Picked up ", picked.held, ".">>, "ok"),
                          setItemOk))
             ELSE flash(S, <<"Nothing happened.">>, "info")
        ELSE IF current = Undefined
        THEN LET placed == [S EXCEPT !.held = Undefined]
             IN  saveGameState(flash(placed, <<"Placed ", v, ".">>, "ok"),
                               setItemOk)
        ELSE IF current = v
        THEN LET merged == [writeCell(S, id, v * 2) EXCEPT !.held = Undefined]
             IN  checkWin(saveGameState(
                     flash(merged, <<"Merged to ", v * 2, "!">>, "ok"),
                     setItemOk))
        ELSE LET swapped == writeCell([S EXCEPT !.held = current], id, v)
             IN  saveGameState(
                     flash(swapped, <<"Swapped: cell=", v, ", holding=",
                                      current, ".">>, "ok"),
                     setItemOk)

\* MUTANT of handleCellClick: the merge test forgets to compare the values
handleCellClickMergesAny(S, id, setItemOk) ==
    LET current == readCell(S, id)
        v == S.held
    IN  IF S.held = Undefined
        THEN IF current # Undefined
             THEN LET picked == writeCell([S EXCEPT !.held = current], id,
                                          Undefined)
                  IN  checkWin(saveGameState(
                          flash(picked, <<"Picked up ", picked.held, ".">>, "ok"),
                          setItemOk))
             ELSE flash(S, <<"Nothing happened.">>, "info")
        ELSE IF current = Undefined
        THEN LET placed == [writeCell(S, id, v) EXCEPT !.held = Undefined]
             IN  saveGameState(flash(placed, <<"Placed ", v, ".">>, "ok"),
                               setItemOk)
        ELSE LET merged == [writeCell(S, id, v * 2) EXCEPT !.held = Undefined]
             IN  checkWin(saveGameState(
                     flash(merged, <<"Merged to ", v * 2, "!">>, "ok"),
                     setItemOk))

handleCellClick(S, id, setItemOk) ==
    LET current == readCell(S, id)
        v == S.held
    IN  IF S.held = Undefined
        THEN IF current # Undefined
             THEN LET picked == writeCell([S EXCEPT !.held = current], id,
                                          Undefined)
                  IN  checkWin(saveGameState(
                          flash(picked, <<"Picked up ", picked.held, ".">>, "ok"),
                          setItemOk))
             ELSE flash(S, <<"Nothing happened.">>, "info")
        ELSE IF current = Undefined
        THEN LET placed == [writeCell(S, id, v) EXCEPT !.held = Undefined]
             IN  saveGameState(flash(placed, <<"Placed ", v, ".">>, "ok"),
                               setItemOk)
        ELSE IF current = v
        THEN LET merged == [writeCell(S, id, v * 2) EXCEPT !.held = Undefined]
             IN  checkWin(saveGameState(
                     flash(merged, <<"Merged to ", v * 2, "!">>, "ok"),
                     setItemOk))
        ELSE LET swapped == [writeCell(S, id, v) EXCEPT !.held = current]
             IN  saveGameState(
                     flash(swapped,
                           <<"Swapped: cell=", v, ", holding=", current, ".">>,
                           "ok"),
                     setItemOk)

\* the click handler drawGridToScreenEdges attaches to the cell's rectangle
cellClick(S, id, setItemOk) ==
    IF ~canInteract(id, S.playerCell)
    THEN flash(S, <<"Too far away to interact.">>, "err")
    ELSE handleCellClick(S, id, setItemOk)

\* ------------------------------------------------------------------------
\* New game and boot
\* ------------------------------------------------------------------------
\* MUTANT of resetGameState: the hand is not emptied
resetGameStateKeepsHand(S, ok1, ok2, ok3) ==
    LET cleared == [S EXCEPT !.modified = EmptyMap,
                             !.playerCell = HomeCell,
                             !.movementMode = "buttons"]
        saved == saveGameState(cleared, ok1)
        placed == setPlayerCell(saved, saved.playerCell, ok2)
        moded == setMovementMode(placed, "buttons", ok3)
    IN  flash(moded, <<"Started a new game.">>, "info")

\* MUTANT of resetGameState: a failed first write is not caught and ends
\* the handler
resetGameStateAborting(S, ok1, ok2, ok3) ==
    LET cleared == [S EXCEPT !.modified = EmptyMap,
                             !.held = Undefined,
                             !.playerCell = HomeCell,
                             !.movementMode = "buttons"]
        saved == saveGameState(cleared, ok1)
        placed == setPlayerCell(saved, saved.playerCell, ok2)
        moded == setMovementMode(placed, "buttons", ok3)
    IN  IF ok1 THEN flash(moded, <<"Started a new game.">>, "info")
        ELSE cleared

resetGameState(S, ok1, ok2, ok3) ==
    LET cleared == [S EXCEPT !.modified = EmptyMap,
                             !.held = Undefined,
                             !.playerCell = HomeCell,
                             !.movementMode = "buttons"]
        saved == saveGameState(cleared, ok1)
        placed == setPlayerCell(saved, saved.playerCell, ok2)
        moded == setMovementMode(placed, "buttons", ok3)
    IN  flash(moded, <<"Started a new game.">>, "info")

\* the values the module's declarations give, with the stored item kept
ModuleState(item) ==
    [playerCell |-> HomeCell, held |-> Undefined, modified |-> EmptyMap,
     movementMode |-> "buttons", geoWatchId |-> Null, watches |-> {},
     disabled |-> FALSE, msg |-> [text |-> NoText, cls |-> ""],
     timers |-> [timers EXCEPT !.queue = <<>>],
     storage |-> item]

\* loadGameState(); updateInventoryUI(); setPlayerCell(playerCell);
\* setMovementMode(movementMode)
bootSequence(S, ok1, ok2) ==
    LET loaded == loadGameState(S)
        placed == setPlayerCell(loaded, loaded.playerCell, ok1)
    IN  setMovementMode(placed, placed.movementMode, ok2)


\* ------------------------------------------------------------------------
\* History
\* ------------------------------------------------------------------------
\* a click on id took the program from state S to state T
TouchedAfter(S, T, id) ==
    IF readCell(S, id) # readCell(T, id) THEN touched \cup {id} ELSE touched

\* ------------------------------------------------------------------------
\* Events
\* ------------------------------------------------------------------------
\* The item a game played earlier in this browser left in the storage.  The
\* player stood on the cell at offset (7, 3), picked up the 8 of (11, 1) and
\* merged it into (3, 4), then picked up the 8 of (11, 2) and merged it into
\* (6, -1); SpecEarlier below plays that game.
EarlierGame ==
    [playerCell |-> Offset(7, 3),
     held |-> Null,
     movementMode |-> "buttons",
     modified |-> (cellKey(Offset(11, 1)) :> Null) @@
                  (cellKey(Offset(3, 4)) :> 16) @@
                  (cellKey(Offset(11, 2)) :> Null) @@
                  (cellKey(Offset(6, -1)) :> 16)]

EarlierTouched ==
    {Offset(11, 1), Offset(3, 4), Offset(11, 2), Offset(6, -1)}

\* the page is loaded with item in the storage; tracked: whether the
\* timeouts are told apart
InitTracking(item, tracked) ==
    /\ pc = "boot"
    /\ geoAvailable \in BOOLEAN
    /\ playerCell = HomeCell
    /\ held = Undefined
    /\ modified = EmptyMap
    /\ movementMode = "buttons"
    /\ geoWatchId = Null
    /\ watches = {}
    /\ disabled = FALSE
    /\ msg = [text |-> NoText, cls |-> ""]
    /\ timers = [tracked |-> tracked, queue |-> <<>>]
    /\ storage = item
    /\ touched = IF item # <<>> /\ "modified" \in DOMAIN item[1]
                 THEN {c \in WorldCells :
                          cellKey(c) \in DOMAIN item[1].modified}
                 ELSE {}

InitWith(item) == InitTracking(item, FALSE)

\* the page is loaded for the first time, or after the earlier game
Init == \E item \in {<<>>, <<EarlierGame>>} : InitWith(item)

\* the boot sequence at the end of the module
Boot(ok1, ok2) ==
    /\ pc = "boot"
    /\ pc' = "run"
    /\ Becomes(bootSequence(Cur, ok1, ok2))
    /\ UNCHANGED <<geoAvailable, touched>>

\* a click on the rectangle of cell id
Click(id, ok) ==
    /\ pc = "run"
    /\ LET T == cellClick(Cur, id, ok)
       IN  /\ Becomes(T)
           /\ touched' = TouchedAfter(Cur, T, id)
    /\ UNCHANGED <<pc, geoAvailable>>

\* one of the four step buttons; a disabled button fires no click
Step(di, dj, ok) ==
    /\ pc = "run"
    /\ ~disabled
    /\ InArena([i |-> playerCell.i + di, j |-> playerCell.j + dj])
    /\ Becomes(movePlayerBySteps(Cur, di, dj, ok))
    /\ UNCHANGED <<pc, geoAvailable, touched>>

\* the movement toggle button
ToggleMovement(ok) ==
    /\ pc = "run"
    /\ Becomes(setMovementMode(
           Cur, IF movementMode = "buttons" THEN "geolocation" ELSE "buttons",
           ok))
    /\ UNCHANGED <<pc, geoAvailable, touched>>

\* the position feed reports a fix to an active watch
GeoPosition(fix, ok) ==
    /\ pc = "run"
    /\ watches # {}
    /\ Becomes(geoPosition(Cur, fix.lat, fix.lng, ok))
    /\ UNCHANGED <<pc, geoAvailable, touched>>

\* the position feed reports an error to an active watch
GeoError ==
    /\ pc = "run"
    /\ watches # {}
    /\ Becomes(geoError(Cur))
    /\ UNCHANGED <<pc, geoAvailable, touched>>

\* the New Game button
NewGame(ok1, ok2, ok3) ==
    /\ pc = "run"
    /\ Becomes(resetGameState(Cur, ok1, ok2, ok3))
    /\ touched' = {}
    /\ UNCHANGED <<pc, geoAvailable>>

\* The oldest pending timeout fires: it clears the text if the text
\* displayed is the text its flash displayed.  Where the timeouts are not
\* told apart: whenever a text is displayed, the timeout of the flash that
\* displayed it is pending, and fires.
TimerFire ==
    /\ pc = "run"
    /\ IF timers.tracked
       THEN /\ timers.queue # <<>>
            /\ msg' = IF msg.text = Head(timers.queue)
                      THEN [msg EXCEPT !.text = NoText] ELSE msg
            /\ timers' = [timers EXCEPT !.queue = Tail(@)]
       ELSE /\ msg.text # NoText
            /\ msg' = [msg EXCEPT !.text = NoText]
            /\ UNCHANGED timers
    /\ UNCHANGED <<pc, geoAvailable, playerCell, held, modified, movementMode,
                   geoWatchId, watches, disabled, storage, touched>>

\* the page is loaded again: the module's declarations run afresh, the
\* stored item stays, the old page's watches end with it
Reload ==
    /\ pc = "run"
    /\ pc' = "boot"
    /\ Becomes(ModuleState(storage))
    /\ UNCHANGED <<geoAvailable, touched>>

Steps == {<<1, 0>>, <<-1, 0>>, <<0, -1>>, <<0, 1>>}

\* W: the outcomes localStorage.setItem can have; Cells: the cells clicked
NextWith(W, Cells) ==
    \/ \E ok1, ok2 \in W : Boot(ok1, ok2)
    \/ \E id \in Cells, ok \in W : Click(id, ok)
    \/ \E d \in Steps, ok \in W : Step(d[1], d[2], ok)
    \/ \E ok \in W : ToggleMovement(ok)
    \/ \E fix \in GeoFixes, ok \in W : GeoPosition(fix, ok)
    \/ GeoError
    \/ \E ok1, ok2, ok3 \in W : NewGame(ok1, ok2, ok3)
    \/ TimerFire
    \/ Reload

\* storage writes succeed
Next == NextWith({TRUE}, ClickCells)

Spec == Init /\ [][Next]_vars


\* Stored items that no save of the game writes (an edited or truncated
\* item): unparseable text; an object without playerCell; one whose
\* playerCell lacks j; one whose held is a string; one without modified.
MalformedItems ==
    {Unparseable,
     [held |-> 8, movementMode |-> "buttons", modified |-> EmptyMap],
     [playerCell |-> [i |-> HomeCell.i + 7], held |-> Null,
      movementMode |-> "geolocation", modified |-> EmptyMap],
     [playerCell |-> Offset(7, 3), held |-> StringValue,
      movementMode |-> "buttons", modified |-> EmptyMap],
     [playerCell |-> Offset(7, 3), held |-> 8, movementMode |-> "buttons"]}

\* the page is loaded with a malformed item in the storage
InitCorrupt == \E item \in MalformedItems : InitWith(<<item>>)

SpecCorrupt == InitCorrupt /\ [][Next]_vars

\* Two items a game continued from EarlierGame saves (Spec reaches both):
\* the 16 of (6, -1) picked up, so that the hand matches the 16 of (3, 4);
\* and the 8 of (7, 8) picked up, so that the hand differs from it.
HandMatches ==
    [EarlierGame EXCEPT
        !.held = 16,
        !.modified = MapSet(EarlierGame.modified, cellKey(Offset(6, -1)),
                            Null)]

HandDiffers ==
    [EarlierGame EXCEPT
        !.held = 8,
        !.modified = MapSet(EarlierGame.modified, cellKey(Offset(7, 8)),
                            Null)]

\* violated under Spec: the two items are what a game saves
HandMatchesNeverSaved == storage # <<HandMatches>>
HandDiffersNeverSaved == storage # <<HandDiffers>>

\* the cell clicked while storage writes may fail
QuotaCells == {Offset(3, 4)}

\* while storage writes may fail the player walks north and back, at most
\* QuotaWalk steps from the classroom cell or from a position fix
QuotaWalk == 1

InCorridor(c) ==
    \E a \in Anchors : c.j = a.j /\ (c.i - a.i) \in 0..QuotaWalk

\* a step button pressed while the step stays in the corridor
CorridorStep(di, dj, ok) ==
    /\ InCorridor([i |-> playerCell.i + di, j |-> playerCell.j + dj])
    /\ Step(di, dj, ok)

\* storage writes may fail (quota exceeded, private mode)
NextQuota ==
    \/ \E ok1, ok2 \in BOOLEAN : Boot(ok1, ok2)
    \/ \E id \in QuotaCells, ok \in BOOLEAN : Click(id, ok)
    \/ \E d \in Steps, ok \in BOOLEAN : CorridorStep(d[1], d[2], ok)
    \/ \E ok \in BOOLEAN : ToggleMovement(ok)
    \/ \E fix \in GeoFixes, ok \in BOOLEAN : GeoPosition(fix, ok)
    \/ GeoError
    \/ \E ok1, ok2, ok3 \in BOOLEAN : NewGame(ok1, ok2, ok3)
    \/ TimerFire
    \/ Reload

\* a first load, or a load after one of the two games, in a browser whose
\* storage may refuse a write
InitQuota == \E item \in {<<>>, <<HandMatches>>, <<HandDiffers>>} : InitWith(item)

SpecQuota == InitQuota /\ [][NextQuota]_vars

\* the cells clicked while the timeouts are told apart: from the classroom
\* cell one is in range and one is too far
FlashCells == {Offset(3, 4), Offset(7, 3)}

NextFlash ==
    \/ Boot(TRUE, TRUE)
    \/ \E id \in FlashCells : Click(id, TRUE)
    \/ ToggleMovement(TRUE)
    \/ GeoError
    \/ NewGame(TRUE, TRUE, TRUE)
    \/ TimerFire
    \/ Reload

\* a first load, the timeouts told apart
InitFlash == InitTracking(<<>>, TRUE)

SpecFlash == InitFlash /\ [][NextFlash]_vars

\* the earlier game: a first load, and clicks on the cells it altered
InitEarlier == InitWith(<<>>)

NextEarlier ==
    \/ Boot(TRUE, TRUE)
    \/ \E id \in EarlierTouched : Click(id, TRUE)
    \/ ToggleMovement(TRUE)
    \/ \E fix \in GeoFixes : GeoPosition(fix, TRUE)

SpecEarlier == InitEarlier /\ [][NextEarlier]_vars

\* violated under SpecEarlier: the earlier game's item is what a game saves
EarlierGameNeverSaved == ~(storage = <<EarlierGame>> /\ touched = EarlierTouched)


\* ------------------------------------------------------------------------
\* Properties
\* ------------------------------------------------------------------------
Radius == INTERACT_RANGE_STEPS

\* the cell is strictly farther than the radius from where the player stands
TooFar(c) ==
    (c.i - playerCell.i) * (c.i - playerCell.i)
        + (c.j - playerCell.j) * (c.j - playerCell.j) > Radius * Radius

\* what read(c) returns now, and after the step
Read(c) == readCell([modified |-> modified], c)
ReadAfter(c) == readCell([modified |-> modified'], c)

\* the overlay after the step differs from the one before at most at cell c
OnlyCellChanged(c) ==
    \A k \in (DOMAIN modified) \cup (DOMAIN modified') :
        k # cellKey(c) =>
            /\ k \in DOMAIN modified
            /\ k \in DOMAIN modified'
            /\ modified'[k] = modified[k]

\* C1: a click on a cell strictly farther than the interaction radius from
\* the cell the player stands on at that moment changes neither held nor
\* the overlay nor any cell's value nor the stored item, and displays the
\* "too far" message.
C1_TooFarRejected ==
    [][\A id \in ClickCells :
          (TooFar(id) /\ Click(id, TRUE)) =>
              /\ held' = held
              /\ modified' = modified
              /\ storage' = storage
              /\ msg' = [text |-> <<"Too far away to interact.">>,
                         cls |-> "err"]]_vars

\* the player has moved off the classroom cell, holds a token, and a click
\* on a far cell that holds a token was rejected
C1_Witness ==
    /\ pc = "run"
    /\ playerCell # HomeCell
    /\ held # Undefined
    /\ msg.text = <<"Too far away to interact.">>
    /\ \E id \in ClickCells : TooFar(id) /\ Read(id) # Undefined


\* C2: an in-range click does exactly what the first matching row of the
\* transition table says, for every pair (held, current): no-op, pickup,
\* place, merge (only when both are non-empty and equal, to exactly twice
\* the held value) or swap.
C2_TransitionTable ==
    [][\A id \in ClickCells :
          (~TooFar(id) /\ Click(id, TRUE)) =>
              LET h == held
                  cur == Read(id)
              IN  /\ OnlyCellChanged(id)
                  /\ IF h = Undefined /\ cur = Undefined
                     THEN /\ held' = Undefined
                          /\ modified' = modified
                          /\ msg'.text = <<"Nothing happened.">>
                     ELSE IF h = Undefined
                     THEN /\ held' = cur
                          /\ ReadAfter(id) = Undefined
                          /\ msg'.text \in {<<"Picked up ", cur, ".">>,
                                            <<"You win! Held token value = ", cur>>}
                     ELSE IF cur = Undefined
                     THEN /\ held' = Undefined
                          /\ ReadAfter(id) = h
                          /\ msg'.text = <<"Placed ", h, ".">>
                     ELSE IF cur = h
                     THEN /\ held' = Undefined
                          /\ ReadAfter(id) = 2 * h
                          /\ msg'.text = <<"Merged to ", 2 * h, "!">>
                     ELSE /\ held' = cur
                          /\ ReadAfter(id) = h
                          /\ msg'.text =
                                <<"Swapped: cell=", h, ", holding=", cur, ".">>]_vars

\* two 16s were merged into a 32 on a cell, and the hand is empty
C2_Witness ==
    /\ pc = "run"
    /\ held = Undefined
    /\ msg.text = <<"Merged to ", 32, "!">>
    /\ \E id \in ClickCells : Read(id) = 32 /\ ~TooFar(id)


\* the step altered the hand or a cell
Mutated == held' # held \/ modified' # modified

WinSignalled == msg'.text[1] = "You win! Held token value = "

\* C3: after every click that altered the hand or a cell (pickup, place,
\* merge, swap) the win message is displayed if and only if the value then
\* held is at least the win threshold.
C3_WinCheckedAfterEveryMutation ==
    [][\A id \in ClickCells :
          (~TooFar(id) /\ Click(id, TRUE) /\ Mutated) =>
              (WinSignalled <=> (held' # Undefined /\ held' >= WIN_VALUE))]_vars


C3_Witness ==
    /\ pc = "run"
    /\ held # Undefined /\ held >= WIN_VALUE
    /\ msg.text[1] = "Swapped: cell="

\* C4: whenever the win message is displayed, the hand holds a value of at
\* least the win threshold.
C4_NoFalseWin ==
    msg.text[1] = "You win! Held token value = " =>
        held # Undefined /\ held >= WIN_VALUE

C4_Witness ==
    /\ pc = "run"
    /\ held = WIN_VALUE
    /\ msg = [text |-> WinText(WIN_VALUE), cls |-> "ok"]

\* the values a cell or the hand can hold
TokenValues == {Undefined, 1, 2, 4, 8, 16, 32, 64}

\* writeCell(c, v) makes readCell(c) return v and changes no other cell
StoreLaw ==
    \A c \in WorldCells, v \in TokenValues :
        LET W == writeCell([modified |-> modified], c, v)
        IN  /\ readCell(W, c) = v
            /\ \A d \in WorldCells \ {c} : readCell(W, d) = Read(d)

\* a cell's value changes only by a click on that cell, by New Game or by
\* loading the page
StoreFrame ==
    \A c \in WorldCells :
        ReadAfter(c) # Read(c) =>
            \/ pc' # pc
            \/ NewGame(TRUE, TRUE, TRUE)
            \/ c \in ClickCells /\ Click(c, TRUE)

\* C5: in every reachable state a write of v to c makes the read of c return
\* v, whatever the generator gives for c, and leaves every other cell's read
\* as it was; and no step other than a click on c itself (a click on another
\* cell, a move, a mode switch, a timer) changes the read of c.
C5_ReadYourWrite == []StoreLaw /\ [][StoreFrame]_vars

C5_Witness ==
    /\ pc = "run"
    /\ movementMode = "geolocation"
    /\ playerCell # HomeCell
    /\ \E c \in ClickCells :
          /\ cellKey(c) \in DOMAIN modified
          /\ Read(c) = Undefined
          /\ initialTokenValue(c) # Undefined
    /\ \E d \in ClickCells : Read(d) \notin {Undefined, initialTokenValue(d)}

\* C6: every cell no interaction has altered reads as the generator's value
\* for it, in every reachable state (after moves, interactions on other
\* cells, and after the page is loaded again from the saved state).
C6_UntouchedReadsGenerated ==
    \A c \in WorldCells \ touched : Read(c) = initialTokenValue(c)

C6_Witness ==
    /\ pc = "run"
    /\ playerCell # HomeCell
    /\ storage # <<>>
    /\ Cardinality(touched) >= 2
    /\ \E c \in WorldCells \ touched : Read(c) # Undefined
    /\ \E d \in touched : Read(d) # initialTokenValue(d)

OverlayIsTouched ==
    /\ DOMAIN modified = {cellKey(c) : c \in touched}
    /\ Cardinality(DOMAIN modified) = Cardinality(touched)

\* C7: while the page runs, the overlay's keys are the keys of the cells an
\* interaction has altered since the last New Game, as many as those cells;
\* and no step other than New Game removes a key.
C7_OverlayKeysAreTouchedCells ==
    [][/\ pc = "run" => OverlayIsTouched
       /\ pc' = "run" => OverlayIsTouched'
       /\ (pc = "run" /\ pc' = "run" /\ ~NewGame(TRUE, TRUE, TRUE)) =>
              DOMAIN modified \subseteq DOMAIN modified']_vars

C7_Witness ==
    /\ pc = "run"
    /\ Cardinality(DOMAIN modified) = 3
    /\ \E c \in touched : Read(c) = Undefined
    /\ \E c \in ClickCells \ touched : TRUE
    /\ msg.text = <<"Nothing happened.">>

\* C8: with an empty hand and a token on a cell c in range, a click on c,
\* then at most one step that keeps c in range, then a second click on c
\* leave c reading what it read before and the hand empty.
C8_PickupPlaceRoundTrip ==
    \A c \in ClickCells :
        (pc = "run" /\ held = Undefined /\ ~TooFar(c) /\ Read(c) # Undefined) =>
            LET v == Read(c)
                T1 == cellClick(Cur, c, TRUE)
            IN  /\ T1.held = v
                /\ readCell(T1, c) = Undefined
                /\ \A d \in Steps \cup {<<0, 0>>} :
                      LET M == movePlayerBySteps(T1, d[1], d[2], TRUE)
                          T2 == cellClick(M, c, TRUE)
                      IN  canInteract(c, M.playerCell) =>
                              /\ readCell(T2, c) = v
                              /\ T2.held = Undefined

C8_Witness ==
    /\ pc = "run"
    /\ held = Undefined
    /\ msg.text = <<"Placed ", 8, ".">>
    /\ \E c \in ClickCells :
          /\ ~TooFar(c)
          /\ cellKey(c) \in DOMAIN modified
          /\ modified[cellKey(c)] = 8
          /\ initialTokenValue(c) = 8
    /\ Cardinality(DOMAIN modified) = 1

\* C9: while the page runs and storage writes succeed, the stored item holds
\* the player's cell, the held value, the movement mode and the overlay of
\* the program's memory (an empty hand or cell stored as null).
C9_SnapshotEqualsMemory ==
    pc = "run" =>
        /\ storage # <<>>
        /\ storage[1].playerCell = playerCell
        /\ storage[1].held = (IF held = Undefined THEN Null ELSE held)
        /\ storage[1].movementMode = movementMode
        /\ DOMAIN storage[1].modified = DOMAIN modified
        /\ \A k \in DOMAIN modified :
              storage[1].modified[k] =
                  (IF modified[k] = Undefined THEN Null ELSE modified[k])

C9_Witness ==
    /\ pc = "run"
    /\ movementMode = "geolocation"
    /\ watches # {}
    /\ playerCell \notin {HomeCell, Offset(7, 3)}
    /\ held # Undefined
    /\ \E k \in DOMAIN modified : modified[k] = Undefined
    /\ storage # <<EarlierGame>>

\* C10: for every reachable state, saving it and loading the item in a
\* freshly loaded page gives the same player cell, held value, movement mode
\* and overlay (the same keys and values, empty entries kept), both right
\* after loadGameState and at the end of the boot sequence.
C10_SaveLoadRoundTrip ==
    LET fresh == ModuleState(saveGameState(Cur, TRUE).storage)
        L == loadGameState(fresh)
        B == bootSequence(fresh, TRUE, TRUE)
    IN  /\ L.playerCell = playerCell /\ B.playerCell = playerCell
        /\ L.held = held /\ B.held = held
        /\ L.movementMode = movementMode /\ B.movementMode = movementMode
        /\ L.modified = modified /\ B.modified = modified

\* a page booted from an item saved in geolocation mode, with an empty hand
\* kept empty and an emptied cell kept in the overlay
C10_Witness ==
    /\ pc = "run"
    /\ geoAvailable
    /\ movementMode = "geolocation"
    /\ watches = {}
    /\ playerCell # HomeCell
    /\ held = Undefined
    /\ \E k \in DOMAIN modified : modified[k] = Undefined
    /\ \E k \in DOMAIN modified : modified[k] = 32


\* the defaults of the module's declarations
DefaultsAfter ==
    /\ playerCell' = HomeCell
    /\ held' = Undefined
    /\ movementMode' = "buttons"
    /\ modified' = EmptyMap

\* C11: a boot that finds a malformed item in the storage ends in the
\* default state (home cell, empty hand, buttons mode, empty overlay).
C11_MalformedYieldsDefaults ==
    [][(pc = "boot" /\ storage \in {<<m>> : m \in MalformedItems}
            /\ Boot(TRUE, TRUE)) => DefaultsAfter]_vars

\* a hand taken from the item next to a player cell and an overlay that are
\* the defaults
C11_Witness ==
    /\ pc = "run"
    /\ playerCell = HomeCell
    /\ held = 8
    /\ modified = EmptyMap
    /\ storage # <<>> /\ storage[1].held = 8


\* everything of a state but the stored item
Memory(S) == [S EXCEPT !.storage = <<>>]

\* the stored item of S holds the player's cell, the hand, the mode and the
\* overlay of S
Persisted(S) ==
    /\ S.storage # <<>>
    /\ S.storage[1].playerCell = S.playerCell
    /\ S.storage[1].held = (IF S.held = Undefined THEN Null ELSE S.held)
    /\ S.storage[1].movementMode = S.movementMode
    /\ DOMAIN S.storage[1].modified = DOMAIN S.modified
    /\ \A k \in DOMAIN S.modified :
          S.storage[1].modified[k] =
              (IF S.modified[k] = Undefined THEN Null ELSE S.modified[k])

\* F: the state after an event some of whose writes failed; T: the state
\* after the same event with every write successful; Z: the state after it
\* with every write failed
BestEffort(F, T, Z) ==
    /\ Memory(F) = Memory(T)
    /\ Z.storage = storage
    /\ F.storage = storage \/ Persisted(F)
    /\ T.storage = storage \/ Persisted(T)

\* C12: in every state reachable while storage writes may fail, each event
\* (click, step, position fix, mode switch, New Game) leaves the memory it
\* would leave with successful writes, whichever of its writes fail; the
\* stored item is untouched when all fail, and whenever a write succeeds the
\* stored item is the full state of the memory at that moment.
C12_SaveIsBestEffort ==
    pc = "run" =>
        /\ \A id \in ClickCells :
              BestEffort(cellClick(Cur, id, FALSE), cellClick(Cur, id, TRUE),
                         cellClick(Cur, id, FALSE))
        /\ \A d \in Steps :
              BestEffort(movePlayerBySteps(Cur, d[1], d[2], FALSE),
                         movePlayerBySteps(Cur, d[1], d[2], TRUE),
                         movePlayerBySteps(Cur, d[1], d[2], FALSE))
        /\ \A fix \in GeoFixes :
              BestEffort(geoPosition(Cur, fix.lat, fix.lng, FALSE),
                         geoPosition(Cur, fix.lat, fix.lng, TRUE),
                         geoPosition(Cur, fix.lat, fix.lng, FALSE))
        /\ \A mode \in {"buttons", "geolocation"} :
              BestEffort(setMovementMode(Cur, mode, FALSE),
                         setMovementMode(Cur, mode, TRUE),
                         setMovementMode(Cur, mode, FALSE))
        /\ \A ok1, ok2, ok3 \in BOOLEAN :
              BestEffort(resetGameState(Cur, ok1, ok2, ok3),
                         resetGameState(Cur, TRUE, TRUE, TRUE),
                         resetGameState(Cur, FALSE, FALSE, FALSE))

\* a game played on while no write ever succeeded
C12_Witness ==
    /\ pc = "run"
    /\ storage = <<>>
    /\ movementMode = "geolocation"
    /\ playerCell # HomeCell
    /\ held = 8
    /\ msg.text = <<"Picked up ", 8, ".">>


\* the item a save of the default state writes
DefaultItem ==
    [playerCell |-> HomeCell, held |-> Null, movementMode |-> "buttons",
     modified |-> EmptyMap]

Defaults(S) ==
    /\ S.playerCell = HomeCell
    /\ S.held = Undefined
    /\ S.movementMode = "buttons"
    /\ S.modified = EmptyMap

\* C13: from every reachable state, New Game leaves the player on the home
\* cell, the hand empty, the mode buttons and the overlay empty, stores the
\* item of that default state, and a page loaded right after it boots into
\* the default state.
C13_ResetRestoresDefaults ==
    pc = "run" =>
        LET R == resetGameState(Cur, TRUE, TRUE, TRUE)
            B == bootSequence(ModuleState(R.storage), TRUE, TRUE)
        IN  /\ Defaults(R)
            /\ R.storage = <<DefaultItem>>
            /\ Defaults(B)
            /\ B.storage = <<DefaultItem>>

\* New Game pressed in geolocation mode, away from home
C13_Witness ==
    /\ pc = "run"
    /\ msg.text = <<"Started a new game.">>
    /\ Defaults(Cur)
    /\ storage = <<DefaultItem>>
    /\ touched = {}
    /\ geoWatchId # Null


\* C14: whenever the movement mode is buttons, no position watch is active
\* (so no fix moves the player after a switch out of geolocation mode, by
\* the toggle or by New Game).
C14_NoFeedInButtonsMode ==
    (pc = "run" /\ movementMode = "buttons") => watches = {}

\* buttons mode, a watch still active, and the player moved by one of its
\* fixes
C14_Witness ==
    /\ pc = "run"
    /\ movementMode = "buttons"
    /\ watches # {}
    /\ playerCell = Offset(7, 3)
    /\ touched = {}
    /\ msg.text = NoText

\* C15: when the switch to geolocation finds no geolocation API, and when
\* the feed reports an error, the failure is reported and afterwards the
\* mode is buttons with the step buttons enabled.
C15_FeedFailureFallsBack ==
    [][/\ (~geoAvailable /\ movementMode = "buttons" /\ ToggleMovement(TRUE)) =>
              /\ msg'.text = <<"Geolocation API not available.">>
              /\ movementMode' = "buttons"
              /\ ~disabled'
       /\ (watches # {} /\ GeoError) =>
              /\ msg'.text = <<"Unable to read geolocation.">>
              /\ movementMode' = "buttons"
              /\ ~disabled']_vars

\* no geolocation API, yet the mode is geolocation and the buttons are off
C15_Witness ==
    /\ pc = "run"
    /\ ~geoAvailable
    /\ movementMode = "geolocation"
    /\ disabled
    /\ storage # <<>> /\ storage[1].movementMode = "geolocation"


\* T differs from the present state in no overlay entry but that of cell c
OverlayFrame(T, c) ==
    /\ DOMAIN modified \subseteq DOMAIN T.modified
    /\ DOMAIN T.modified \subseteq DOMAIN modified \cup {cellKey(c)}
    /\ \A k \in DOMAIN modified : k # cellKey(c) => T.modified[k] = modified[k]

\* T has the hand and the overlay of the present state
HandAndOverlayKept(T) == T.held = held /\ T.modified = modified

\* C16: in every reachable state, a click on any cell (whatever its outcome)
\* leaves the player's cell and the movement mode as they are and changes no
\* overlay entry but the clicked cell's; a step, a position fix and a mode
\* switch leave the hand and the whole overlay as they are.
C16_FrameConditions ==
    pc = "run" =>
        /\ \A id \in ClickCells :
              LET T == cellClick(Cur, id, TRUE)
              IN  /\ T.playerCell = playerCell
                  /\ T.movementMode = movementMode
                  /\ OverlayFrame(T, id)
        /\ \A d \in Steps :
              HandAndOverlayKept(movePlayerBySteps(Cur, d[1], d[2], TRUE))
        /\ \A fix \in GeoFixes :
              HandAndOverlayKept(geoPosition(Cur, fix.lat, fix.lng, TRUE))
        /\ \A mode \in {"buttons", "geolocation"} :
              HandAndOverlayKept(setMovementMode(Cur, mode, TRUE))

\* moved by a fix in geolocation mode with a token in the hand and three
\* cells altered
C16_Witness ==
    /\ pc = "run"
    /\ movementMode = "geolocation"
    /\ playerCell = Offset(7, 3)
    /\ held # Undefined
    /\ Cardinality(DOMAIN modified) >= 3
    /\ msg.text[1] = "Swapped: cell="

\* C17: while the page runs, the step buttons are enabled exactly when the
\* movement mode is buttons.
C17_ButtonsEnabledIffButtonsMode ==
    pc = "run" => (~disabled <=> movementMode = "buttons")

\* buttons mode after New Game with the step buttons still disabled
C17_Witness ==
    /\ pc = "run"
    /\ movementMode = "buttons"
    /\ disabled
    /\ msg.text = <<"Started a new game.">>


RECURSIVE IsPowerOfTwo(_)
IsPowerOfTwo(n) ==
    IF n < 1 THEN FALSE
    ELSE IF n = 1 THEN TRUE
    ELSE n % 2 = 0 /\ IsPowerOfTwo(n \div 2)

EmptyOrPowerOfTwo(v) == v = Undefined \/ IsPowerOfTwo(v)

\* C19: in every state reachable from a first load or from an item the game
\* saved, the hand and every cell hold nothing or a power of two.
C19_PowersOfTwo ==
    /\ EmptyOrPowerOfTwo(held)
    /\ \A c \in WorldCells : EmptyOrPowerOfTwo(Read(c))

\* every token of the model in play: a 32 merged on a cell, an 8 in the hand
C19_Witness ==
    /\ pc = "run"
    /\ held = 8
    /\ \E c \in ClickCells : Read(c) = 32
    /\ \E c \in ClickCells : Read(c) = Undefined /\ initialTokenValue(c) = 8

\* a token value, an empty hand or cell counting 0
Worth(v) == IF v = Undefined THEN 0 ELSE v

RECURSIVE SumOfCells(_, _)
SumOfCells(S, cells) ==
    IF cells = {} THEN 0
    ELSE LET c == CHOOSE x \in cells : TRUE
         IN  Worth(readCell(S, c)) + SumOfCells(S, cells \ {c})

\* the total of the token values in play: the hand and the cells
TotalInPlay(S) == Worth(S.held) + SumOfCells(S, WorldCells)

\* C20: in every reachable state a click on any cell (whatever its outcome),
\* a step, a position fix and a mode switch leave the total of the hand and
\* of all cells unchanged; and a click that swaps leaves the pair of hand and
\* cell values the same two values.
C20_Conservation ==
    pc = "run" =>
        /\ \A id \in ClickCells :
              LET T == cellClick(Cur, id, TRUE)
              IN  /\ TotalInPlay(T) = TotalInPlay(Cur)
                  /\ (/\ canInteract(id, playerCell)
                      /\ held # Undefined
                      /\ Read(id) # Undefined
                      /\ Read(id) # held) =>
                         /\ T.held = Read(id)
                         /\ readCell(T, id) = held
        /\ \A d \in Steps :
              TotalInPlay(movePlayerBySteps(Cur, d[1], d[2], TRUE)) =
                  TotalInPlay(Cur)
        /\ \A fix \in GeoFixes :
              TotalInPlay(geoPosition(Cur, fix.lat, fix.lng, TRUE)) =
                  TotalInPlay(Cur)
        /\ \A mode \in {"buttons", "geolocation"} :
              TotalInPlay(setMovementMode(Cur, mode, TRUE)) = TotalInPlay(Cur)

\* after a merge and a swap the total is still that of the generated cells
C20_Witness ==
    /\ pc = "run"
    /\ msg.text[1] = "Swapped: cell="
    /\ \E c \in ClickCells : Read(c) > 8
    /\ touched # {}
    /\ TotalInPlay(Cur) = SumOfCells([modified |-> EmptyMap], WorldCells)


\* C18: a displayed message is cleared only by the timeout of the flash
\* that displayed it: when a text is cleared, no timeout of an earlier flash
\* is pending (the one that fires is the only one, the message's own).
C18_ClearedOnlyByOwnTimer ==
    [][(pc = "run" /\ pc' = "run" /\ msg.text # NoText /\ msg'.text = NoText)
          => Len(timers.queue) = 1]_vars

\* no text is displayed although the timeout of the last flash is pending
C18_Witness ==
    /\ pc = "run"
    /\ msg.text = NoText
    /\ timers.queue = <<<<"Too far away to interact.">>>>


\* C21: after a boot with the geolocation API available, whenever the
\* movement mode is geolocation a position watch is active (a boot from an
\* item saved in geolocation mode starts the feed).
C21_FeedActiveInGeolocationMode ==
    (pc = "run" /\ geoAvailable /\ movementMode = "geolocation") =>
        /\ watches # {}
        /\ geoWatchId # Null

\* booted from an item saved in geolocation mode, the API available, and no
\* watch was started
C21_Witness ==
    /\ pc = "run"
    /\ geoAvailable
    /\ storage # <<>>
    /\ storage[1].movementMode = "geolocation"
    /\ movementMode = "geolocation"
    /\ geoWatchId = Null
    /\ watches = {}
    /\ ~disabled

============================================================================
